---- MODULE Spec2Model ----
(***************************************************************************)
(* Model of the SmartStatements document pipeline.                         *)
(*                                                                         *)
(*   GeminiClient.extract_pdf_template  - the parallel page extractor      *)
(*   GeminiClient._extract_from_image   - primary page extraction          *)
(*   GeminiClient._fallback_ocr_extraction - fallback page extraction      *)
(*   WorkflowEngine.process_file        - the stage sequence and its       *)
(*                                        exception handler                *)
(***************************************************************************)
EXTENDS Integers, Sequences, FiniteSets, TLC

\* ---------------------------------------------------------------- bounds
MaxPages == 3
MaxWorkers == 2
MaxRows == 2      \* rows of the frame given to _apply_data_healing
MaxIssues == 2    \* length of healing_result['issues']
MaxDocPages == 2  \* pages of each of two documents extracted at the same time
MaxEvents == 3    \* created/modified events the observer delivers for one file
MaxHeaders == 3   \* table headers of the template, duplicates included
MaxColumns == 1   \* columns of the healed data
MaxRuns == 2      \* runs of the mapping stage on the same inputs
MaxMonitorCalls == 6  \* calls of start_monitoring and stop_monitoring

\* ---------------------------------------------------------------- state
VARIABLES
    file_ext,          \* Path(file_path).suffix.lower()
    is_template,       \* '2024' in filename or 'template' in filename
    max_workers,       \* config.max_workers
    pc,                \* position of process_file
    report_id,         \* "none" until create_report returned
    db_status,         \* reports.status of this run's report
    processing_steps,  \* the ledger: sequence of [step, name]
    attempted,         \* stages entered so far, in order
    error_cause,       \* what raised the exception process_file caught
    had_failed_page,   \* some page of this run ended with method "failed"
    qa_status,         \* qa_report.get('overall_status')
    alerts,            \* number of send_alert calls
    active_workflows,  \* MetricsCollector.active_workflows gauge
    backend_response,  \* what the quality, mapping and audit backends replied
    outcome,           \* the dict process_file returned
    mapping_result,    \* a mapping of the dict semantic_account_mapping returned
    output_file,       \* what os.path.exists(output_path) found after exec
    db_calls,          \* calls of the DatabaseManager methods, by method
    alert_failed,      \* an exception was caught inside send_alert
    verification,      \* a row of this run's report exists in verifications
    settings,          \* a Config instance and what constructing/validating it did
    api,               \* one POST /api/process: the request and the response
    branch,            \* two runs of process_file up to the template branch
    shared,            \* two extractions and the temp files they share
    handler,           \* a FileMonitorHandler and the events of one file
    monitor,           \* a FileMonitor, its observer and its thread
    hashing,           \* two runs of the mapping stage and their input_hash
    ex_pc,             \* position of extract_pdf_template
    total_pages,       \* len(images)
    temp_paths,        \* page numbers whose temp image file exists
    task,              \* per page: state of its future
    response,          \* per page: what the primary backend call gave
    fb_calls,          \* per page: calls of _fallback_ocr_extraction
    value,             \* per page: the dict the task returned
    results,           \* results list, in as_completed order
    pages,             \* result["pages"] once extract_pdf_template returned
    heal_pc,           \* calls of _apply_data_healing made so far
    frames,            \* the DataFrame objects that exist, by identity
    issues,            \* healing_result['issues']
    df_before,         \* value of the caller's frame when it made the call
    healed_df,         \* identity of the returned frame, 0 if none
    trace,             \* healed_df after the copy and after each issue
    raised,            \* _apply_data_healing raised
    again              \* what the call on the returned frame gave

vars == <<file_ext, is_template, max_workers, pc, report_id, db_status,
          processing_steps, attempted, error_cause, had_failed_page,
          qa_status, alerts, active_workflows, backend_response, outcome,
          mapping_result, output_file, db_calls, alert_failed, verification,
          settings, api, branch, shared, handler, monitor, hashing, ex_pc,
          total_pages, temp_paths, task, response, fb_calls, value,
          results, pages, heal_pc, frames, issues, df_before, healed_df,
          trace, raised, again>>

healVars == <<heal_pc, frames, issues, df_before, healed_df, trace, raised,
              again>>

pipeVars == <<pc, report_id, db_status, processing_steps, attempted,
              error_cause, had_failed_page, qa_status, alerts,
              active_workflows, backend_response, outcome, mapping_result,
              output_file, db_calls, alert_failed, verification>>

\* the state of the models that stand beside one run of process_file
auxVars == <<branch, shared, handler, monitor, hashing>>

poolVars == <<total_pages, temp_paths, task, response, fb_calls, value,
              results, pages>>

\* what no step of process_file or of the extractor changes
inputVars == <<file_ext, is_template, max_workers, healVars, settings, api,
               auxVars>>

\* ---------------------------------------------------------------- values
FileExts == {".pdf", ".xlsx", ".xls"}

\* What pro_model.generate_content / json.loads can give for one page:
\*   ok            a JSON object of the requested shape
\*   nonconforming a JSON object that is not of that shape ("tables" absent,
\*                 null, or not a list of tables)
\*   unparseable   text json.loads rejects, or a JSON value that is not an
\*                 object (item assignment raises TypeError)
\*   backend_error generate_content or response.text raised
Responses == {"ok", "nonconforming", "unparseable", "backend_error"}

\* A page result: its "page", its "extraction_method", whether it carries an
\* "error", and whether its "tables" is a list of tables (the dicts built by
\* the fallback always are; the primary result is whatever the backend sent)
NoResult == [page |-> 0, extraction_method |-> "none", error |-> FALSE, well_formed |-> TRUE]

VisionResult(p, r) ==
    [page |-> p, extraction_method |-> "gemini_vision", error |-> FALSE,
     well_formed |-> (r = "ok")]

OcrResult(p) ==
    [page |-> p, extraction_method |-> "ocr_fallback", error |-> FALSE, well_formed |-> TRUE]

FailedResult_nopage(p) ==
    [page |-> 0, extraction_method |-> "failed", error |-> TRUE, well_formed |-> TRUE]

FailedResult(p) ==
    [page |-> p, extraction_method |-> "failed", error |-> TRUE, well_formed |-> TRUE]

\* no backend of the three has been asked yet
NoResponses == [quality |-> "none", mapping |-> "none", audit |-> "none"]

\* process_file has not returned
NoOutcome == [status |-> "none"]

\* Config.auto_map_threshold and Config.review_threshold, in hundredths
auto_map_threshold == 85
review_threshold == 70

\* the required settings, in the order __post_init__ and validate test them
RequiredKeys == <<"GEMINI_API_KEY", "OPENROUTER_API_KEY", "SUPABASE_URL",
                  "SUPABASE_ANON_KEY", "SUPABASE_SERVICE_KEY">>

\* the set of the members of a sequence
Range(seq) == {seq[i] : i \in 1..Len(seq)}

\* threshold values a Config can be constructed with, in hundredths
Thresholds == {-5, 0, 70, 85, 100, 120}

\* a Config instance: the required settings that are not empty, its
\* thresholds, validate_on_init, what __post_init__ printed and what
\* validate raised
ConfigOf(present, auto, review, on_init) ==
    [pc |-> "fields", present |-> present, auto_map_threshold |-> auto,
     review_threshold |-> review, validate_on_init |-> on_init,
     warning |-> <<>>, error |-> "none"]

\* the instance the module creates when every required setting is in the
\* environment
DefaultConfig ==
    [ConfigOf(Range(RequiredKeys), auto_map_threshold, review_threshold, TRUE)
        EXCEPT !.pc = "loaded"]

\* missing_vars of __post_init__: the empty required settings, in order
RECURSIVE MissingVars(_, _)
MissingVars(present, i) ==
    IF i > Len(RequiredKeys) THEN <<>>
    ELSE IF RequiredKeys[i] \in present THEN MissingVars(present, i + 1)
    ELSE <<RequiredKeys[i]>> \o MissingVars(present, i + 1)

\* file names by what _analyze_file looks for in them: the year they carry
\* and the word they carry, as written
FileNames == [digits : {"2024", "2025"},
              word : {"template", "TEMPLATE", "statement"}]

\* str.lower() on the word of a file name
LowerWord(word) == IF word = "TEMPLATE" THEN "template" ELSE word

\* is_template = '2024' in filename or 'template' in filename, on the
\* lower-cased base name
IsTemplateName(name) ==
    name.digits = "2024" \/ LowerWord(name.word) = "template"

\* the arguments of a call process_file(file_path, user_id, year), the file
\* given by its name and by what it holds
Calls == [name : FileNames, content : {"reference", "data"},
          user_id : {"u1", "u2"}, year : {2024, 2025}]

\* a run that has got as far as a position, with the file_info it computed
\* and the template branch it took
RunOf(call, at, info, taken) ==
    [call |-> call, pc |-> at, is_template |-> info, taken |-> taken]

NoBranch == <<>>
\* n copies of a value
RECURSIVE Fill(_, _)
Fill(n, v) == IF n = 0 THEN <<>> ELSE Append(Fill(n - 1, v), v)

\* what a page task found when it opened its temp_path: nothing yet, no
\* file, or the image some run saved there
Unread == -1
NoFile == 0

\* an extract_pdf_template call on a document of n pages: how many images it
\* has saved, and what each of its page tasks read
ExtractionOf(n) ==
    [pc |-> "saving", pages |-> n, saved |-> 0, read |-> Fill(n, Unread)]

\* temp_page_1.jpg .. in the working directory, each with the run that wrote
\* it last (NoFile when it does not exist), and the two calls
NoShared == [fs |-> Fill(MaxDocPages, NoFile), runs |-> <<>>]
\* _get_file_hash of the one file watched here: path, size and mtime while
\* os.stat works (given by the number of the file's last change), the bare
\* path when it raises
BarePath == 0

\* a FileMonitorHandler and one file of the input directory: whether the
\* file exists, how often it has changed, the events emitted and waiting,
\* processed_files, and the hash of the file at each callback call
HandlerOf(suffix) ==
    [suffix |-> suffix, exists |-> FALSE, stat |-> 0, emitted |-> 0,
     queue |-> 0, processed_files |-> {}, called |-> <<>>, raised |-> 0]

NoHandler == HandlerOf("")
\* FileMonitor.__init__: observer None (0), monitoring False, no thread; the
\* Observer objects made so far and the threads started so far are kept by
\* their number, with the state of each
NoMonitor == [monitoring |-> FALSE, observer |-> 0, observers |-> <<>>,
              threads |-> <<>>, last |-> "none", calls |-> 0]
\* no template, no data, no mapping stage run
NoHashing == [headers |-> <<>>, columns |-> <<>>, runs |-> <<>>]

\* the limits ProcessRequest puts on a request
MaxFileSizeMb == 50
BytesPerMb == 1048576
MaxUserIdLength == 255
MinYear == 2000
MaxYear == 2100

\* a field the JSON body does not have
Missing == -1

\* supported_types of validate_file_path
SupportedTypes == {".pdf", ".xlsx", ".xls"}

\* suffixes of the file_path of a request
Suffixes == {".pdf", ".PDF", ".xlsx", ".xls", ".csv", ""}

\* str.lower() on a suffix
Lower(suffix) == IF suffix = ".PDF" THEN ".pdf" ELSE suffix

\* os.path.getsize of the file, in bytes
FileSizes == {0, MaxFileSizeMb * BytesPerMb, MaxFileSizeMb * BytesPerMb + 1}

\* len(user_id)
UserIdLengths == {0, 1, MaxUserIdLength, MaxUserIdLength + 1}

\* year
Years == {MinYear - 1, MinYear, MaxYear, MaxYear + 1}

\* request.get_json() gave an empty object
EmptyBody == [body |-> "empty", path |-> "missing", suffix |-> "", size |-> 0,
              user_id |-> Missing, year |-> Missing]

\* the JSON bodies of a request: file_path absent, naming no file, or naming
\* a file with a suffix and a size; user_id and year absent or given
Requests ==
    {EmptyBody} \cup
    [body : {"object"}, path : {"missing", "nonexistent", "file"},
     suffix : Suffixes, size : FileSizes,
     user_id : UserIdLengths \cup {Missing}, year : Years \cup {Missing}]

\* no request is being handled
NoRequest == [pc |-> "idle", request |-> EmptyBody, status |-> 0,
              error |-> "none", details |-> {}]

\* ProcessRequest.validate_file_path, after pydantic's test for a required field
validate_file_path(r) ==
    IF r.path = "missing" THEN "field required"
    ELSE IF r.path = "nonexistent" THEN "File does not exist"
    ELSE IF Lower(r.suffix) \notin SupportedTypes THEN "Unsupported file type"
    ELSE IF r.size > MaxFileSizeMb * BytesPerMb THEN "File too large"
    ELSE "ok"

\* validate_user_id without the upper limit
validate_user_id_unlimited(r) ==
    IF r.user_id = Missing THEN "field required"
    ELSE IF r.user_id < 1 THEN "user_id cannot be empty"
    ELSE "ok"

\* ProcessRequest.validate_user_id, after pydantic's test for a required field
validate_user_id(r) ==
    IF r.user_id = Missing THEN "field required"
    ELSE IF r.user_id < 1 THEN "user_id cannot be empty"
    ELSE IF r.user_id > MaxUserIdLength THEN "user_id too long"
    ELSE "ok"

\* year: int = Field(default=2025, ge=2000, le=2100)
validate_year(r) ==
    IF r.year = Missing THEN "ok"
    ELSE IF r.year < MinYear THEN "greater than or equal"
    ELSE IF r.year > MaxYear THEN "less than or equal"
    ELSE "ok"

\* e.errors() of the ValidationError ProcessRequest(**data) raises
ValidationErrors(r) ==
    {e \in {[field |-> "file_path", message |-> validate_file_path(r)],
            [field |-> "user_id", message |-> validate_user_id(r)],
            [field |-> "year", message |-> validate_year(r)]} :
        e.message # "ok"}

\* similarity scores of a mapping, in hundredths
Scores == {69, 70, 85, 86}

\* the action labels the prompt of semantic_account_mapping asks for
Actions == {"AUTO_MAP", "REVIEW_NEEDED", "NEW_ACCOUNT"}

\* no mapping has been returned
NoMapping == [similarity_score |-> -1, action |-> "none"]

\* no DatabaseManager method has been called
NoCalls == [create_report |-> 0, update_report_completion |-> 0,
            update_report_status |-> 0]

\* json.loads succeeded and result["page"] = page_num did not raise
PrimaryAccepted(r) == r \in {"ok", "nonconforming"}

\* ---------------------------------------------------------------- sort
\* results.sort(key=lambda x: x.get('page', 0)) : stable, ascending
RECURSIVE InsertByPage(_, _)
InsertByPage(r, s) ==
    IF s = <<>> THEN <<r>>
    ELSE IF s[Len(s)].page <= r.page THEN Append(s, r)
    ELSE Append(InsertByPage(r, SubSeq(s, 1, Len(s) - 1)), s[Len(s)])

RECURSIVE SortLoop(_, _)
SortLoop(rs, acc) ==
    IF rs = <<>> THEN acc
    ELSE SortLoop(Tail(rs), InsertByPage(Head(rs), acc))

SortByPage_unsorted(rs) == rs

SortByPage(rs) == SortLoop(rs, <<>>)

\* ---------------------------------------------------------------- healing
\* quantile(0.95), as a fraction
Q95 == [num |-> 19, den |-> 20]

RECURSIVE Pow(_, _)
Pow(b, e) == IF e = 0 THEN 1 ELSE b * Pow(b, e - 1)

\* Numbers are kept exactly, as integers counting 1/Unit: every quantile
\* divides by Q95.den once, and at most MaxIssues outlier issues are applied
\* in each of two calls.
Unit == Pow(Q95.den, 2 * MaxIssues)

\* a cell: null (None or NaN), a number, or a string
Null == [t |-> "null", n |-> 0, s |-> ""]

Num(x) == [t |-> "num", n |-> x, s |-> ""]

Str(x) == [t |-> "str", n |-> 0, s |-> x]

\* what a raw record can hold in the field "amt"
CellValues == {Null, Num(20 * Unit), Str("7"), Str("x")}

\* suggested_value of an issue: absent (None) or a number
Suggestions == {Null, Num(10 * Unit)}

IssueTypes == {"missing", "outlier", "type_error", "inconsistent_format"}

\* pd.to_numeric(..., errors='coerce') on one cell: a number stays, a string
\* that reads as a number becomes that number, anything else becomes NaN
ToNumeric(v) ==
    IF v.t = "num" THEN v
    ELSE IF v = Str("7") THEN Num(7 * Unit)
    ELSE Null

\* A DataFrame: its row labels, its columns, each column's dtype and cells
\* (cells in the order of the row labels).  The records of this model have
\* the one field "amt"; a frame without columns keeps an unused slot for it.
NoFrame == [index |-> <<>>, columns |-> {}, dtype |-> [amt |-> "none"],
            data |-> [amt |-> <<>>]]

\* the dtype pd.DataFrame(raw_data) gives a column: object when a cell is a
\* string, numeric when there are numbers and no string; a column of nulls
\* is object when they are None and float when they are NaN
InferredDtypes(cells) ==
    IF \E i \in 1..Len(cells) : cells[i].t = "str" THEN {"object"}
    ELSE IF \E i \in 1..Len(cells) : cells[i].t = "num" THEN {"number"}
    ELSE {"object", "number"}

\* pd.DataFrame(raw_data) for records with the one field "amt"; an empty
\* record list gives a frame with no columns
RECURSIVE SeqsOf(_, _)
SeqsOf(S, n) ==
    IF n = 0 THEN {<<>>}
    ELSE {Append(q, x) : q \in SeqsOf(S, n - 1), x \in S}

RECURSIVE RangeIndex(_)
RangeIndex(n) == IF n = 0 THEN <<>> ELSE Append(RangeIndex(n - 1), n - 1)

InputFrames ==
    {NoFrame} \cup
    UNION {UNION {{[index |-> RangeIndex(n),
                    columns |-> {"amt"},
                    dtype |-> [amt |-> d],
                    data |-> [amt |-> cells]]
                    : d \in InferredDtypes(cells)}
                  : cells \in SeqsOf(CellValues, n)}
           : n \in 1..MaxRows}

\* the issues a backend reply can hold for a frame of n rows: a row in or
\* just out of range on the known field, any row on an unknown field
Issue(row, col, type, sug) ==
    [row |-> row, column |-> col, type |-> type, suggested_value |-> sug]

IssuesFor(n) ==
    {Issue(r, "amt", ty, sg) :
        r \in 0..n, ty \in IssueTypes \ {"missing"}, sg \in {Null}}
    \cup {Issue(r, "amt", "missing", sg) : r \in 0..n, sg \in Suggestions}
    \cup {Issue(0, "ghost", ty, sg) :
        ty \in IssueTypes \ {"missing"}, sg \in {Null}}
    \cup {Issue(0, "ghost", "missing", sg) : sg \in Suggestions}

IssueLists(n) == UNION {[1..k -> IssuesFor(n)] : k \in 0..MaxIssues}

\* the rows and values of a frame, without the dtypes
Records(f) == [index |-> f.index, columns |-> f.columns, data |-> f.data]

\* position of a row label in the index, 0 when the label is not there
Pos(f, row) ==
    IF \E i \in 1..Len(f.index) : f.index[i] = row
    THEN CHOOSE i \in 1..Len(f.index) : f.index[i] = row
    ELSE 0

\* healed_df.at[row, col] = v : sets the cell; when the label is not in the
\* index, _set_value falls back to .loc, which adds a row with that label
\* (and NaN in the other columns, of which this model has none)
SetAt_append(f, row, col, v) ==
    [f EXCEPT !.index = Append(@, row), !.data[col] = Append(@, v)]

SetAt(f, row, col, v) ==
    IF Pos(f, row) > 0
    THEN [f EXCEPT !.data[col][Pos(f, row)] = v]
    ELSE [f EXCEPT !.index = Append(@, row), !.data[col] = Append(@, v)]

\* ascending sort of a sequence of integers
RECURSIVE InsertNum(_, _)
InsertNum(x, s) ==
    IF s = <<>> THEN <<x>>
    ELSE IF s[Len(s)] <= x THEN Append(s, x)
    ELSE Append(InsertNum(x, SubSeq(s, 1, Len(s) - 1)), s[Len(s)])

RECURSIVE SortNums(_, _)
SortNums(s, acc) ==
    IF s = <<>> THEN acc ELSE SortNums(Tail(s), InsertNum(Head(s).n, acc))

\* healed_df[col].quantile(0.95): NaN is skipped, and the value is
\* interpolated linearly between the two nearest order statistics
Quantile95(cells) ==
    LET nums == SortNums(SelectSeq(cells, LAMBDA v : v.t = "num"), <<>>)
        h    == Q95.num * (Len(nums) - 1)
        lo   == (h \div Q95.den) + 1
        fr   == h % Q95.den
    IN IF nums = <<>> THEN Null
       ELSE IF fr = 0 THEN Num(nums[lo])
       ELSE Num(nums[lo] + ((nums[lo + 1] - nums[lo]) \div Q95.den) * fr)

\* Python's min(a, b) on a cell and p95: b when b < a, else a; a comparison
\* with NaN is false
PyMin(a, b) == IF a.t = "num" /\ b.t = "num" /\ b.n < a.n THEN b ELSE a

\* pd.to_numeric on a column: each cell converted
RECURSIVE CoerceCells(_)
CoerceCells(cells) ==
    IF cells = <<>> THEN <<>>
    ELSE <<ToNumeric(Head(cells))>> \o CoerceCells(Tail(cells))

\* what applying one issue gives: the frame, and whether it raised
Done(f) == [frame |-> f, raised |-> FALSE]

KeyError(f) == [frame |-> f, raised |-> TRUE]

\* issue_type == 'missing' and suggested is not None
HealMissing_column(f, row, col, sug) ==
    Done(SetAt(SetAt(f, row, col, sug), row + 1, col, sug))

HealMissing(f, row, col, sug) == Done(SetAt(f, row, col, sug))

\* issue_type == 'outlier': only for a column of numeric dtype; reading
\* healed_df.at[row, col] raises KeyError when the label is not in the index
HealOutlier_p95(f, row, col) ==
    IF f.dtype[col] # "number" THEN Done(f)
    ELSE IF Pos(f, row) = 0 THEN KeyError(f)
    ELSE Done(SetAt(f, row, col, Quantile95(f.data[col])))

HealOutlier(f, row, col) ==
    IF f.dtype[col] # "number" THEN Done(f)
    ELSE IF Pos(f, row) = 0 THEN KeyError(f)
    ELSE Done(SetAt(f, row, col,
                    PyMin(f.data[col][Pos(f, row)], Quantile95(f.data[col]))))

\* issue_type == 'type_error': the whole column is converted when its dtype
\* is object; whatever the conversion raises is swallowed
HealTypeError_raise(f, col) ==
    IF f.dtype[col] # "object" THEN Done(f)
    ELSE IF \E i \in 1..Len(f.index) : ToNumeric(f.data[col][i]) # f.data[col][i]
    THEN KeyError(f)
    ELSE Done([f EXCEPT !.dtype[col] = "number"])

HealTypeError(f, col) ==
    IF f.dtype[col] # "object" THEN Done(f)
    ELSE Done([f EXCEPT !.dtype[col] = "number",
                        !.data[col] = CoerceCells(f.data[col])])

\* the body of the loop for one issue: row is never None here, so the only
\* test on the target is that the column exists
ApplyIssue(f, issue) ==
    IF issue.column \notin f.columns THEN Done(f)
    ELSE IF issue.type = "missing" /\ issue.suggested_value # Null
    THEN HealMissing(f, issue.row, issue.column, issue.suggested_value)
    ELSE IF issue.type = "outlier"
    THEN HealOutlier(f, issue.row, issue.column)
    ELSE IF issue.type = "type_error"
    THEN HealTypeError(f, issue.column)
    ELSE Done(f)

\* for issue in healing_result.get('issues', []): tr holds healed_df as it
\* was after the copy and after each issue so far
RECURSIVE HealLoop(_, _)
HealLoop(tr, rest) ==
    IF rest = <<>> THEN [trace |-> tr, raised |-> FALSE]
    ELSE LET r == ApplyIssue(tr[Len(tr)], Head(rest))
         IN IF r.raised THEN [trace |-> tr, raised |-> TRUE]
            ELSE HealLoop(Append(tr, r.frame), Tail(rest))

\* healed_df = df.copy(): a new object with the same contents
Copy_alias(objs, id) == [frames |-> objs, id |-> id]

Copy(objs, id) == [frames |-> Append(objs, objs[id]), id |-> Len(objs) + 1]

\* _apply_data_healing(df, healing_result) for the frame object id: the
\* objects afterwards, the identity of the returned frame (0 when it
\* raised), and the trace of healed_df
ApplyDataHealing(objs, id, iss) ==
    LET c   == Copy(objs, id)
        run == HealLoop(<<c.frames[c.id]>>, iss)
    IN [frames |-> [c.frames EXCEPT ![c.id] = run.trace[Len(run.trace)]],
        healed_df |-> IF run.raised THEN 0 ELSE c.id,
        trace |-> run.trace,
        raised |-> run.raised]

\* no second call has been made
NoAgain == [called |-> FALSE, raised |-> FALSE, records |-> Records(NoFrame)]

\* _apply_data_healing is not being looked at
\* the models beside the run are not in use
AuxIdle ==
    /\ branch = NoBranch
    /\ shared = NoShared
    /\ handler = NoHandler
    /\ monitor = NoMonitor
    /\ hashing = NoHashing

HealIdle ==
    /\ heal_pc = "idle"
    /\ frames = <<>>
    /\ issues = <<>>
    /\ df_before = NoFrame
    /\ healed_df = 0
    /\ trace = <<>>
    /\ raised = FALSE
    /\ again = NoAgain

\* ---------------------------------------------------------------- init
NoPool ==
    /\ total_pages = 0
    /\ temp_paths = {}
    /\ task = <<>>
    /\ response = <<>>
    /\ fb_calls = <<>>
    /\ value = <<>>
    /\ results = <<>>
    /\ pages = <<>>

Init ==
    /\ file_ext \in FileExts
    /\ is_template \in BOOLEAN
    /\ max_workers \in 1..MaxWorkers
    /\ pc = "start"
    /\ report_id = "none"
    /\ db_status = "none"
    /\ processing_steps = <<>>
    /\ attempted = <<>>
    /\ error_cause = "none"
    /\ had_failed_page = FALSE
    /\ qa_status = "none"
    /\ alerts = 0
    /\ active_workflows = 0
    /\ backend_response = NoResponses
    /\ outcome = NoOutcome
    /\ mapping_result = NoMapping
    /\ output_file = "unknown"
    /\ db_calls = NoCalls
    /\ alert_failed = FALSE
    /\ verification = FALSE
    /\ settings = DefaultConfig
    /\ api = NoRequest
    /\ AuxIdle
    /\ ex_pc = "idle"
    /\ NoPool
    /\ HealIdle


\* ---------------------------------------------------------------- extractor
\* tasks a worker thread is executing (primary call or its fallback, or a
\* backend call that has not come back)
Executing == {p \in 1..total_pages : task[p] \in {"running", "fallback", "blocked"}}

Queued == {p \in 1..total_pages : task[p] = "queued"}

\* ThreadPoolExecutor(max_workers=config.max_workers): a queued work item is
\* taken only by an idle worker thread, and there are max_workers of them
WorkerFree_unbounded == Cardinality(Executing) <= max_workers

WorkerFree == Cardinality(Executing) < max_workers

\* convert_from_path, saving the temp images, submitting one task per page
ConvertAndSubmit ==
    /\ ex_pc = "convert"
    /\ \E ok \in BOOLEAN, n \in 0..MaxPages :
        IF ok
        THEN /\ ex_pc' = "pool"
             /\ total_pages' = n
             /\ temp_paths' = 1..n
             /\ task' = [i \in 1..n |-> "queued"]
             /\ response' = [i \in 1..n |-> "none"]
             /\ fb_calls' = [i \in 1..n |-> 0]
             /\ value' = [i \in 1..n |-> NoResult]
             /\ results' = <<>>
             /\ pages' = <<>>
        ELSE /\ ex_pc' = "raised"
             /\ UNCHANGED poolVars
    /\ UNCHANGED <<pipeVars, inputVars>>

\* an idle worker takes the oldest queued work item (the queue is FIFO)
StartTask ==
    /\ ex_pc = "pool"
    /\ Queued # {}
    /\ WorkerFree
    /\ LET p == CHOOSE q \in Queued : \A o \in Queued : q <= o
       IN task' = [task EXCEPT ![p] = "running"]
    /\ UNCHANGED <<pipeVars, inputVars, ex_pc, total_pages, temp_paths,
                   response, fb_calls, value, results, pages>>

\* _extract_from_image: the primary attempt; both except branches call
\* _fallback_ocr_extraction
ExtractFromImage(p) ==
    /\ ex_pc = "pool"
    /\ task[p] = "running"
    /\ \E r \in Responses :
        /\ response' = [response EXCEPT ![p] = r]
        /\ IF PrimaryAccepted(r)
           THEN /\ value' = [value EXCEPT ![p] = VisionResult(p, r)]
                /\ task' = [task EXCEPT ![p] = "done"]
                /\ UNCHANGED fb_calls
           ELSE /\ task' = [task EXCEPT ![p] = "fallback"]
                /\ fb_calls' = [fb_calls EXCEPT ![p] = @ + 1]
                /\ UNCHANGED value
    /\ UNCHANGED <<pipeVars, inputVars, ex_pc, total_pages, temp_paths,
                   results, pages>>

\* generate_content is called with no timeout and the future is awaited with
\* none: a backend that never answers keeps the worker thread in the call
NoResponse(p) ==
    /\ ex_pc = "pool"
    /\ task[p] = "running"
    /\ response' = [response EXCEPT ![p] = "no_response"]
    /\ task' = [task EXCEPT ![p] = "blocked"]
    /\ UNCHANGED <<pipeVars, inputVars, ex_pc, total_pages, temp_paths,
                   fb_calls, value, results, pages>>

\* _fallback_ocr_extraction: OCR result, or the "failed" dict when OCR raised
FallbackOcrExtraction(p) ==
    /\ ex_pc = "pool"
    /\ task[p] = "fallback"
    /\ \E ok \in BOOLEAN :
        value' = [value EXCEPT ![p] = IF ok THEN OcrResult(p) ELSE FailedResult(p)]
    /\ task' = [task EXCEPT ![p] = "done"]
    /\ UNCHANGED <<pipeVars, inputVars, ex_pc, total_pages, temp_paths,
                   response, fb_calls, results, pages>>

\* what the collection loop appends for a finished future: its result, or the
\* "failed" dict when future.result() raised
CollectedResult(p) == IF value[p] = NoResult THEN FailedResult(p) ELSE value[p]

\* for future in as_completed(...): results.append(...)
Collect(p) ==
    /\ ex_pc = "pool"
    /\ task[p] = "done"
    /\ results' = Append(results, CollectedResult(p))
    /\ task' = [task EXCEPT ![p] = "collected"]
    /\ UNCHANGED <<pipeVars, inputVars, ex_pc, total_pages, temp_paths,
                   response, fb_calls, value, pages>>

\* leaving the with block, removing the temp files, sorting, returning
ExtractorReturn_abort_on_failed_page ==
    /\ ex_pc = "pool"
    /\ \A p \in 1..total_pages : task[p] = "collected"
    /\ temp_paths' = {}
    /\ pages' = SortByPage(results)
    /\ ex_pc' = IF \E i \in 1..Len(results) : results[i].extraction_method = "failed"
                THEN "raised" ELSE "returned"
    /\ UNCHANGED <<pipeVars, inputVars, total_pages, task, response, fb_calls,
                   value, results>>

ExtractorReturn ==
    /\ ex_pc = "pool"
    /\ \A p \in 1..total_pages : task[p] = "collected"
    /\ temp_paths' = {}
    /\ pages' = SortByPage(results)
    /\ ex_pc' = "returned"
    /\ UNCHANGED <<pipeVars, inputVars, total_pages, task, response, fb_calls,
                   value, results>>

\* the caller took the return value (or the exception): locals are gone
ResetPool ==
    /\ ex_pc' = "idle"
    /\ total_pages' = 0
    /\ temp_paths' = temp_paths
    /\ task' = <<>>
    /\ response' = <<>>
    /\ fb_calls' = <<>>
    /\ value' = <<>>
    /\ results' = <<>>
    /\ pages' = <<>>

PagesFailed == \E i \in 1..Len(pages) : pages[i].extraction_method = "failed"

\* p.get('tables', []) is iterated (and measured with len) for every page:
\* that can raise only when some page's "tables" is not a list of tables
CanRaiseOnTables == IF \E i \in 1..Len(pages) : ~pages[i].well_formed
                    THEN BOOLEAN ELSE {FALSE}


\* ---------------------------------------------------------------- pipeline
\* the order process_file calls its stages in
StageOrder == <<"file_analysis", "template", "extract_heal", "mapping",
                "generation", "audit", "certification">>

StepRecord(n, name) == [step |-> n, name |-> name]

\* the text each stage helper puts in front of the exception it re-raises;
\* _analyze_file, create_report and the metrics call are not inside a helper
HelperMessage(stage) ==
    CASE stage = "template" -> "Template extraction failed"
      [] stage = "extract_heal" -> "Data extraction and healing failed"
      [] stage = "mapping" -> "Account mapping failed"
      [] stage = "generation" -> "Statement generation failed"
      [] stage = "audit" -> "Quality assurance failed"
      [] stage = "certification" -> "Certificate generation failed"
      [] OTHER -> "none"

\* error_msg = f"Workflow failed: {str(e)}": the fixed head, the helper's
\* text when a helper re-raised, and the text of the original exception
ErrorMessage(cause, stages) ==
    [head |-> "Workflow failed",
     helper |-> IF cause \in {"create_report", "file_analysis", "metrics"}
                THEN "none"
                ELSE HelperMessage(stages[Len(stages)]),
     detail |-> cause]

\* the dict returned from the except clause
ErrorOutcome(cause, stages, steps) ==
    [status |-> "error", error |-> ErrorMessage(cause, stages),
     processing_steps |-> steps]

\* the dict returned at the end of the try block
SuccessOutcome(rid, qa, steps) ==
    [status |-> "success", report_id |-> rid, qa_report |-> qa,
     processing_steps |-> steps]

\* an exception reached the except clause of process_file
Raise(cause) ==
    /\ pc' = "handler"
    /\ error_cause' = cause

\* report_id = self.db_manager.create_report(...)
CreateReport ==
    /\ pc = "start"
    /\ db_calls' = [db_calls EXCEPT !.create_report = @ + 1]
    /\ \E ok \in BOOLEAN :
        IF ok
        THEN /\ report_id' = "r1"
             /\ db_status' = "processing"
             /\ pc' = "analysis"
             /\ UNCHANGED error_cause
        ELSE /\ Raise("create_report")
             /\ UNCHANGED <<report_id, db_status>>
    /\ UNCHANGED <<processing_steps, attempted, had_failed_page, qa_status,
                   alerts, active_workflows, backend_response, outcome, inputVars, ex_pc, poolVars>>
    /\ UNCHANGED <<mapping_result, output_file, alert_failed>>
    /\ UNCHANGED verification

\* Step 1: _analyze_file, _get_file_hash, append record 1
FileAnalysis ==
    /\ pc = "analysis"
    /\ attempted' = Append(attempted, "file_analysis")
    /\ \E ok \in BOOLEAN :
        IF ok
        THEN /\ processing_steps' = Append(processing_steps, StepRecord(1, "File Analysis"))
             /\ pc' = "template"
             /\ UNCHANGED error_cause
        ELSE /\ Raise("file_analysis")
             /\ UNCHANGED processing_steps
    /\ UNCHANGED <<report_id, db_status, had_failed_page, qa_status, alerts,
                   active_workflows, backend_response, outcome, inputVars, ex_pc, poolVars>>
    /\ UNCHANGED <<mapping_result, output_file, db_calls, alert_failed>>
    /\ UNCHANGED verification

\* Step 2: file_info.get('is_template') selects _extract_template_data or
\* _load_template_data; the latter appends no record
ResolveTemplate ==
    /\ pc = "template"
    /\ attempted' = Append(attempted, "template")
    /\ IF is_template
       THEN IF file_ext = ".pdf"
            THEN /\ pc' = "template_wait"
                 /\ ex_pc' = "convert"
                 /\ UNCHANGED error_cause
            ELSE /\ Raise("template_not_pdf")
                 /\ UNCHANGED ex_pc
       ELSE /\ pc' = "extract"
            /\ UNCHANGED <<error_cause, ex_pc>>
    /\ UNCHANGED <<report_id, db_status, processing_steps, had_failed_page,
                   qa_status, alerts, active_workflows, backend_response, outcome, inputVars, poolVars>>
    /\ UNCHANGED <<mapping_result, output_file, db_calls, alert_failed>>
    /\ UNCHANGED verification

\* _extract_template_data after extract_pdf_template came back
TemplateExtracted ==
    /\ pc = "template_wait"
    /\ ex_pc \in {"returned", "raised"}
    /\ IF ex_pc = "returned"
       THEN \E raises \in CanRaiseOnTables :
            IF raises
            THEN /\ Raise("malformed_tables")
                 /\ UNCHANGED <<processing_steps, had_failed_page>>
            ELSE /\ processing_steps' = Append(processing_steps, StepRecord(2, "Template Extraction"))
                 /\ had_failed_page' = (had_failed_page \/ PagesFailed)
                 /\ pc' = "extract"
                 /\ UNCHANGED error_cause
       ELSE /\ Raise("pdf_extraction")
            /\ UNCHANGED <<processing_steps, had_failed_page>>
    /\ ResetPool
    /\ UNCHANGED <<report_id, db_status, attempted, qa_status, alerts,
                   active_workflows, backend_response, outcome, inputVars>>
    /\ UNCHANGED <<mapping_result, output_file, db_calls, alert_failed>>
    /\ UNCHANGED verification

\* Step 3, first half: _extract_excel_data or _extract_pdf_data by file type
ExtractData ==
    /\ pc = "extract"
    /\ attempted' = Append(attempted, "extract_heal")
    /\ IF file_ext = ".xlsx"
       THEN /\ \E ok \in BOOLEAN :
                IF ok THEN pc' = "heal" /\ UNCHANGED error_cause
                      ELSE Raise("excel_extraction")
            /\ UNCHANGED ex_pc
       ELSE IF file_ext = ".pdf"
            THEN /\ pc' = "extract_wait"
                 /\ ex_pc' = "convert"
                 /\ UNCHANGED error_cause
            ELSE /\ Raise("unsupported_file_type")
                 /\ UNCHANGED ex_pc
    /\ UNCHANGED <<report_id, db_status, processing_steps, had_failed_page,
                   qa_status, alerts, active_workflows, backend_response, outcome, inputVars, poolVars>>
    /\ UNCHANGED <<mapping_result, output_file, db_calls, alert_failed>>
    /\ UNCHANGED verification

\* _extract_pdf_data after extract_pdf_template came back: flatten the tables
PdfDataExtracted ==
    /\ pc = "extract_wait"
    /\ ex_pc \in {"returned", "raised"}
    /\ IF ex_pc = "returned"
       THEN \E raises \in CanRaiseOnTables :
            IF raises
            THEN /\ Raise("malformed_tables")
                 /\ UNCHANGED had_failed_page
            ELSE /\ had_failed_page' = (had_failed_page \/ PagesFailed)
                 /\ pc' = "heal"
                 /\ UNCHANGED error_cause
       ELSE /\ Raise("pdf_extraction")
            /\ UNCHANGED had_failed_page
    /\ ResetPool
    /\ UNCHANGED <<report_id, db_status, processing_steps, attempted,
                   qa_status, alerts, active_workflows, backend_response, outcome, inputVars>>
    /\ UNCHANGED <<mapping_result, output_file, db_calls, alert_failed>>
    /\ UNCHANGED verification

\* Step 3, second half: analyze_data_quality, _apply_data_healing, record 3.
\* A reply json.loads rejects is replaced by an empty issue list and the
\* stage goes on; a JSON object is used as it is, and iterating its "issues"
\* or applying one of them may raise.
HealData ==
    /\ pc = "heal"
    /\ \E q \in Responses, raises \in BOOLEAN :
        /\ backend_response' = [backend_response EXCEPT !.quality = q]
        /\ IF q = "backend_error"
           THEN /\ Raise("backend_error")
                /\ UNCHANGED processing_steps
           ELSE IF raises /\ q # "unparseable"
           THEN /\ Raise("healing_raised")
                /\ UNCHANGED processing_steps
           ELSE /\ processing_steps' = Append(processing_steps, StepRecord(3, "Data Extraction & Healing"))
                /\ pc' = "mapping"
                /\ UNCHANGED error_cause
    /\ UNCHANGED <<report_id, db_status, attempted, had_failed_page, qa_status,
                   alerts, active_workflows, outcome, inputVars, ex_pc,
                   poolVars>>
    /\ UNCHANGED <<mapping_result, output_file, db_calls, alert_failed>>
    /\ UNCHANGED verification


\* the exception semantic_account_mapping raises: json.loads (or the item
\* assignment on a reply that is not a JSON object) failed, or the call did
MappingCause(r) == IF r = "backend_error" THEN "mapping_backend_error"
                   ELSE "mapping_malformed"

\* Step 4: _perform_account_mapping; the record is appended after
\* semantic_account_mapping returned, so a raising call appends nothing.  A
\* reply that is a JSON object is returned whatever its keys are; the score and
\* the action of a mapping are the ones the reply carries, the thresholds
\* appear in the prompt only.
AccountMapping_swallow ==
    /\ pc = "mapping"
    /\ attempted' = Append(attempted, "mapping")
    /\ \E r \in Responses, raises \in BOOLEAN :
        /\ backend_response' = [backend_response EXCEPT !.mapping = r]
        /\ IF r = "ok" \/ (r = "nonconforming" /\ ~raises)
           THEN /\ processing_steps' = Append(processing_steps, StepRecord(4, "Semantic Account Mapping"))
                /\ pc' = "generate"
                /\ UNCHANGED error_cause
                /\ IF r = "ok"
                   THEN \E sc \in Scores, act \in Actions :
                            mapping_result' = [similarity_score |-> sc, action |-> act]
                   ELSE UNCHANGED mapping_result
           ELSE /\ pc' = "generate"
                /\ error_cause' = MappingCause(r)
                /\ UNCHANGED <<processing_steps, mapping_result>>
    /\ UNCHANGED <<report_id, db_status, had_failed_page, qa_status, alerts,
                   active_workflows, outcome, inputVars, ex_pc, poolVars>>
    /\ UNCHANGED <<output_file, db_calls, alert_failed>>
    /\ UNCHANGED verification

AccountMapping ==
    /\ pc = "mapping"
    /\ attempted' = Append(attempted, "mapping")
    /\ \E r \in Responses, raises \in BOOLEAN :
        /\ backend_response' = [backend_response EXCEPT !.mapping = r]
        /\ IF r = "ok" \/ (r = "nonconforming" /\ ~raises)
           THEN /\ processing_steps' = Append(processing_steps, StepRecord(4, "Semantic Account Mapping"))
                /\ pc' = "generate"
                /\ UNCHANGED error_cause
                /\ IF r = "ok"
                   THEN \E sc \in Scores, act \in Actions :
                            mapping_result' = [similarity_score |-> sc, action |-> act]
                   ELSE UNCHANGED mapping_result
           ELSE /\ Raise(MappingCause(r))
                /\ UNCHANGED <<processing_steps, mapping_result>>
    /\ UNCHANGED <<report_id, db_status, had_failed_page, qa_status, alerts,
                   active_workflows, outcome, inputVars, ex_pc, poolVars>>
    /\ UNCHANGED <<output_file, db_calls, alert_failed>>
    /\ UNCHANGED verification

\* what the executed code did to output_path
ExecEffects == {"raised", "wrote", "wrote_nothing"}

\* Step 5: _generate_statements.  output_path is the same for every run and
\* is not removed before exec, so os.path.exists(output_path) also finds the
\* file an earlier run left there.
GenerateStatements ==
    /\ pc = "generate"
    /\ attempted' = Append(attempted, "generation")
    /\ \E existed \in BOOLEAN, effect \in ExecEffects :
        /\ output_file' = IF effect = "wrote" THEN "fresh"
                          ELSE IF existed THEN "stale" ELSE "absent"
        /\ IF effect # "raised" /\ output_file' # "absent"
           THEN /\ processing_steps' = Append(processing_steps, StepRecord(5, "Statement Generation"))
                /\ pc' = "qa"
                /\ UNCHANGED error_cause
           ELSE /\ Raise("generation")
                /\ UNCHANGED processing_steps
    /\ UNCHANGED <<report_id, db_status, had_failed_page, qa_status, alerts,
                   active_workflows, backend_response, outcome, inputVars, ex_pc, poolVars>>
    /\ UNCHANGED <<mapping_result, db_calls, alert_failed>>
    /\ UNCHANGED verification

QaStatuses == {"PASS", "FAIL", "REVIEW", "OTHER"}

\* Step 6: _perform_quality_assurance; a reply that is a JSON object is
\* returned whatever its keys are, and overall_status is read with .get
QualityAssurance ==
    /\ pc = "qa"
    /\ attempted' = Append(attempted, "audit")
    /\ \E r \in Responses, raises \in BOOLEAN :
        /\ backend_response' = [backend_response EXCEPT !.audit = r]
        /\ IF r = "ok" \/ (r = "nonconforming" /\ ~raises)
           THEN /\ qa_status' \in QaStatuses
                /\ processing_steps' = Append(processing_steps, StepRecord(6, "Quality Assurance Audit"))
                /\ pc' = "cert"
                /\ UNCHANGED error_cause
           ELSE /\ Raise("audit")
                /\ UNCHANGED <<processing_steps, qa_status>>
    /\ UNCHANGED <<report_id, db_status, had_failed_page, alerts,
                   active_workflows, outcome, inputVars, ex_pc, poolVars>>
    /\ UNCHANGED <<mapping_result, output_file, db_calls, alert_failed>>
    /\ UNCHANGED verification

\* Step 7: _generate_verification_certificate; it appends no record
VerificationCertificate ==
    /\ pc = "cert"
    /\ attempted' = Append(attempted, "certification")
    /\ \E ok \in BOOLEAN :
        IF ok THEN pc' = "update_db" /\ UNCHANGED error_cause
              ELSE Raise("certificate")
    /\ UNCHANGED <<report_id, db_status, processing_steps, had_failed_page,
                   qa_status, alerts, active_workflows, backend_response, outcome, inputVars, ex_pc,
                   poolVars>>
    /\ UNCHANGED <<mapping_result, output_file, db_calls, alert_failed>>
    /\ UNCHANGED verification

\* Step 8: _update_report_completion; it and update_report_completion both
\* catch every exception
\* how far update_report_completion got before an exception it swallowed:
\* not past the update of reports, not past the insert into verifications,
\* or to its end
CompletionEffects == {"nothing", "status", "status_and_verification"}

UpdateReportCompletion ==
    /\ pc = "update_db"
    /\ \E effect \in CompletionEffects :
        /\ db_status' = IF effect = "nothing" THEN db_status
                        ELSE IF qa_status = "PASS" THEN "ready"
                        ELSE "review_needed"
        /\ verification' = (effect = "status_and_verification")
    /\ db_calls' = [db_calls EXCEPT !.update_report_completion = @ + 1]
    /\ pc' = "alert"
    /\ UNCHANGED <<report_id, processing_steps, attempted, error_cause,
                   had_failed_page, qa_status, alerts, active_workflows,
                   backend_response, outcome, inputVars, ex_pc, poolVars>>
    /\ UNCHANGED <<mapping_result, output_file, alert_failed>>

\* send_alert without its try/except: a failed send reaches process_file
SendAlerts_raise ==
    /\ pc = "alert"
    /\ IF qa_status \in {"FAIL", "REVIEW"}
       THEN /\ alerts' = alerts + 1
            /\ \E failed \in BOOLEAN :
                /\ alert_failed' = failed
                /\ IF failed THEN Raise("alert")
                             ELSE pc' = "metrics" /\ UNCHANGED error_cause
       ELSE /\ pc' = "metrics"
            /\ UNCHANGED <<alerts, alert_failed, error_cause>>
    /\ UNCHANGED <<report_id, db_status, processing_steps, attempted,
                   had_failed_page, qa_status, active_workflows,
                   backend_response, outcome, inputVars, ex_pc, poolVars>>
    /\ UNCHANGED <<mapping_result, output_file, db_calls>>
    /\ UNCHANGED verification

\* Step 9: send_alert when overall_status is FAIL or REVIEW; send_alert
\* catches every exception (a failed e-mail falls back to the log, and a
\* failure of that is caught too), so the caller never sees one
SendAlerts ==
    /\ pc = "alert"
    /\ IF qa_status \in {"FAIL", "REVIEW"}
       THEN /\ alerts' = alerts + 1
            /\ alert_failed' \in BOOLEAN
       ELSE UNCHANGED <<alerts, alert_failed>>
    /\ pc' = "metrics"
    /\ UNCHANGED <<report_id, db_status, processing_steps, attempted,
                   error_cause, had_failed_page, qa_status, active_workflows,
                   backend_response, outcome, inputVars, ex_pc, poolVars>>
    /\ UNCHANGED <<mapping_result, output_file, db_calls>>
    /\ UNCHANGED verification

\* record_workflow_completion (still inside the try block), then return
RecordCompletion ==
    /\ pc = "metrics"
    /\ active_workflows' = active_workflows - 1
    /\ \E ok \in BOOLEAN :
        IF ok THEN /\ pc' = "success"
                   /\ outcome' = SuccessOutcome(report_id, qa_status, processing_steps)
                   /\ UNCHANGED error_cause
              ELSE /\ Raise("metrics")
                   /\ UNCHANGED outcome
    /\ UNCHANGED <<report_id, db_status, processing_steps, attempted,
                   had_failed_page, qa_status, alerts, backend_response,
                   inputVars, ex_pc, poolVars>>
    /\ UNCHANGED <<mapping_result, output_file, db_calls, alert_failed>>
    /\ UNCHANGED verification

\* the except clause without the test for a bound report_id
ExceptionHandler_unguarded ==
    /\ pc = "handler"
    /\ \E ok \in BOOLEAN : db_status' = IF ok THEN "error" ELSE db_status
    /\ db_calls' = [db_calls EXCEPT !.update_report_status = @ + 1]
    /\ active_workflows' = active_workflows - 1
    /\ \E ok \in BOOLEAN :
        IF ok THEN /\ pc' = "error"
                   /\ outcome' = ErrorOutcome(error_cause, attempted, processing_steps)
              ELSE /\ pc' = "escaped"
                   /\ UNCHANGED outcome
    /\ UNCHANGED <<report_id, processing_steps, attempted, error_cause,
                   had_failed_page, qa_status, alerts, backend_response,
                   inputVars, ex_pc, poolVars>>
    /\ UNCHANGED <<mapping_result, output_file, alert_failed>>
    /\ UNCHANGED verification

\* the except clause: update_report_status (which catches every exception)
\* when report_id is bound, then record_workflow_error, which is not guarded;
\* it sends no alert
ExceptionHandler ==
    /\ pc = "handler"
    /\ IF report_id # "none"
       THEN /\ \E ok \in BOOLEAN : db_status' = IF ok THEN "error" ELSE db_status
            /\ db_calls' = [db_calls EXCEPT !.update_report_status = @ + 1]
       ELSE UNCHANGED <<db_status, db_calls>>
    /\ active_workflows' = active_workflows - 1
    /\ \E ok \in BOOLEAN :
        IF ok THEN /\ pc' = "error"
                   /\ outcome' = ErrorOutcome(error_cause, attempted, processing_steps)
              ELSE /\ pc' = "escaped"
                   /\ UNCHANGED outcome
    /\ UNCHANGED <<report_id, processing_steps, attempted, error_cause,
                   had_failed_page, qa_status, alerts, backend_response,
                   inputVars, ex_pc, poolVars>>
    /\ UNCHANGED <<mapping_result, output_file, alert_failed>>
    /\ UNCHANGED verification

\* ---------------------------------------------------------------- spec
PoolStep ==
    \/ StartTask
    \/ \E p \in 1..MaxPages : p <= total_pages /\ ExtractFromImage(p)
    \/ \E p \in 1..MaxPages : p <= total_pages /\ FallbackOcrExtraction(p)

Next ==
    \/ CreateReport
    \/ FileAnalysis
    \/ ResolveTemplate
    \/ TemplateExtracted
    \/ ExtractData
    \/ PdfDataExtracted
    \/ HealData
    \/ AccountMapping
    \/ GenerateStatements
    \/ QualityAssurance
    \/ VerificationCertificate
    \/ UpdateReportCompletion
    \/ SendAlerts
    \/ RecordCompletion
    \/ ExceptionHandler
    \/ ConvertAndSubmit
    \/ PoolStep
    \/ \E p \in 1..MaxPages : p <= total_pages /\ Collect(p)
    \/ ExtractorReturn

Spec == Init /\ [][Next]_vars

\* One call of extract_pdf_template on its own, from the state in which
\* _extract_pdf_data calls it for a file that is not a template.
ExtractInit ==
    /\ file_ext = ".pdf"
    /\ is_template = FALSE
    /\ max_workers \in 1..MaxWorkers
    /\ pc = "extract_wait"
    /\ report_id = "r1"
    /\ db_status = "processing"
    /\ processing_steps = <<StepRecord(1, "File Analysis")>>
    /\ attempted = SubSeq(StageOrder, 1, 3)
    /\ error_cause = "none"
    /\ had_failed_page = FALSE
    /\ qa_status = "none"
    /\ alerts = 0
    /\ active_workflows = 0
    /\ backend_response = NoResponses
    /\ outcome = NoOutcome
    /\ mapping_result = NoMapping
    /\ output_file = "unknown"
    /\ db_calls = [NoCalls EXCEPT !.create_report = 1]
    /\ alert_failed = FALSE
    /\ verification = FALSE
    /\ settings = DefaultConfig
    /\ api = NoRequest
    /\ AuxIdle
    /\ ex_pc = "convert"
    /\ NoPool
    /\ HealIdle

ExtractNext ==
    \/ ConvertAndSubmit
    \/ PoolStep
    \/ \E p \in 1..MaxPages : p <= total_pages /\ Collect(p)
    \/ ExtractorReturn

ExtractSpec == ExtractInit /\ [][ExtractNext]_vars

\* every thread that can take a step eventually takes one: worker threads
\* run their task to its return, the main thread runs to its next call
ExtractFairSpec == ExtractSpec /\ WF_vars(PoolStep) /\ WF_vars(ExtractNext)

\* the same call with a backend that may leave a request unanswered
ExtractBlockingNext ==
    \/ ExtractNext
    \/ \E p \in 1..MaxPages : p <= total_pages /\ NoResponse(p)

ExtractBlockingSpec ==
    /\ ExtractInit
    /\ [][ExtractBlockingNext]_vars
    /\ WF_vars(PoolStep)
    /\ WF_vars(ExtractNext)

\* ---------------------------------------------------------------- reports
\* the rows get_user_reports reads for the user of this run (the view
\* user_reports_summary has one row per report, with the report's status)
StoredReports ==
    IF report_id = "none" THEN <<>>
    ELSE <<[id |-> report_id, status |-> db_status]>>

\* sum(1 for r in reports if r.get('status') == status)
CountStatus(reports, status) ==
    Cardinality({i \in 1..Len(reports) : reports[i].status = status})

\* the counts in the body of GET /api/reports/<user_id>
get_user_reports(reports) ==
    [total_count |-> Len(reports),
     completed_count |-> CountStatus(reports, "completed"),
     failed_count |-> CountStatus(reports, "failed")]


\* ---------------------------------------------------------------- healing spec
\* _apply_data_healing on its own: a frame built from raw records and an
\* issue list from the backend's reply, in the state in which
\* _extract_and_heal_data calls it for an .xlsx file that is not a template.
HealInit ==
    /\ file_ext = ".xlsx"
    /\ is_template = FALSE
    /\ max_workers = 1
    /\ pc = "heal"
    /\ report_id = "r1"
    /\ db_status = "processing"
    /\ processing_steps = <<StepRecord(1, "File Analysis")>>
    /\ attempted = SubSeq(StageOrder, 1, 3)
    /\ error_cause = "none"
    /\ had_failed_page = FALSE
    /\ qa_status = "none"
    /\ alerts = 0
    /\ active_workflows = 0
    /\ backend_response = [NoResponses EXCEPT !.quality = "ok"]
    /\ outcome = NoOutcome
    /\ mapping_result = NoMapping
    /\ output_file = "unknown"
    /\ db_calls = [NoCalls EXCEPT !.create_report = 1]
    /\ alert_failed = FALSE
    /\ verification = FALSE
    /\ settings = DefaultConfig
    /\ api = NoRequest
    /\ AuxIdle
    /\ ex_pc = "idle"
    /\ NoPool
    /\ heal_pc = "input"
    /\ \E f \in InputFrames :
        /\ frames = <<f>>
        /\ df_before = f
        /\ issues \in IssueLists(Len(f.index))
    /\ healed_df = 0
    /\ trace = <<>>
    /\ raised = FALSE
    /\ again = NoAgain

\* healed_df = self._apply_data_healing(df, healing_result)
HealCall ==
    /\ heal_pc = "input"
    /\ LET r == ApplyDataHealing(frames, 1, issues)
       IN /\ frames' = r.frames
          /\ healed_df' = r.healed_df
          /\ trace' = r.trace
          /\ raised' = r.raised
    /\ heal_pc' = "once"
    /\ UNCHANGED <<issues, df_before, again>>
    /\ UNCHANGED <<pipeVars, file_ext, is_template, max_workers, settings, api, ex_pc, poolVars>>
    /\ UNCHANGED auxVars

\* the same issue list applied to the frame the first call returned
HealCallAgain ==
    /\ heal_pc = "once"
    /\ ~raised
    /\ LET r == ApplyDataHealing(frames, healed_df, issues)
       IN /\ frames' = r.frames
          /\ again' = [called |-> TRUE, raised |-> r.raised,
                       records |-> Records(r.trace[Len(r.trace)])]
    /\ heal_pc' = "twice"
    /\ UNCHANGED <<issues, df_before, healed_df, trace, raised>>
    /\ UNCHANGED <<pipeVars, file_ext, is_template, max_workers, settings, api, ex_pc, poolVars>>
    /\ UNCHANGED auxVars

HealNext ==
    \/ HealCall
    \/ HealCallAgain

HealSpec == HealInit /\ [][HealNext]_vars

\* ---------------------------------------------------------------- API
\* POST /api/process has arrived with some JSON body; the engine is idle
ApiInit ==
    /\ \E r \in Requests :
          /\ api = [NoRequest EXCEPT !.pc = "received", !.request = r]
          /\ file_ext = IF Lower(r.suffix) \in FileExts THEN Lower(r.suffix)
                        ELSE ".pdf"
    /\ is_template = FALSE
    /\ max_workers = 1
    /\ pc = "idle"
    /\ report_id = "none"
    /\ db_status = "none"
    /\ processing_steps = <<>>
    /\ attempted = <<>>
    /\ error_cause = "none"
    /\ had_failed_page = FALSE
    /\ qa_status = "none"
    /\ alerts = 0
    /\ active_workflows = 0
    /\ backend_response = NoResponses
    /\ outcome = NoOutcome
    /\ mapping_result = NoMapping
    /\ output_file = "unknown"
    /\ db_calls = NoCalls
    /\ alert_failed = FALSE
    /\ verification = FALSE
    /\ settings = DefaultConfig
    /\ AuxIdle
    /\ ex_pc = "idle"
    /\ NoPool
    /\ HealIdle

\* process_file of api/process.py up to the call of the engine: an empty
\* body and a ValidationError are answered with 400, anything else calls
\* workflow_engine.process_file
ProcessEndpoint ==
    /\ api.pc = "received"
    /\ IF api.request.body = "empty"
       THEN /\ api' = [api EXCEPT !.pc = "responded", !.status = 400,
                                  !.error = "No data provided"]
            /\ UNCHANGED pc
       ELSE IF ValidationErrors(api.request) # {}
       THEN /\ api' = [api EXCEPT !.pc = "responded", !.status = 400,
                                  !.error = "Validation failed",
                                  !.details = ValidationErrors(api.request)]
            /\ UNCHANGED pc
       ELSE /\ api' = [api EXCEPT !.pc = "in_engine"]
            /\ pc' = "start"
    /\ UNCHANGED <<report_id, db_status, processing_steps, attempted,
                   error_cause, had_failed_page, qa_status, alerts,
                   active_workflows, backend_response, outcome, mapping_result,
                   output_file, db_calls, alert_failed, verification>>
    /\ UNCHANGED <<file_ext, is_template, max_workers, healVars, settings,
                   auxVars, ex_pc, poolVars>>

\* process_file of api/process.py after the engine came back: 200 for
\* status success, 207 for any other result, 500 when the call raised
EndpointRespond ==
    /\ api.pc = "in_engine"
    /\ pc \in {"success", "error", "escaped"}
    /\ api' = [api EXCEPT
          !.pc = "responded",
          !.status = IF pc = "success" THEN 200
                     ELSE IF pc = "error" THEN 207 ELSE 500,
          !.error = IF pc = "escaped" THEN "Processing failed" ELSE "none"]
    /\ UNCHANGED <<pipeVars, file_ext, is_template, max_workers, healVars,
                   settings, ex_pc, poolVars>>
    /\ UNCHANGED auxVars

\* the endpoint, and the engine it calls as far as stage 1: create_report,
\* _analyze_file and the except clause; the later stages are those of Spec
ApiNext ==
    \/ ProcessEndpoint
    \/ CreateReport
    \/ FileAnalysis
    \/ ExceptionHandler
    \/ EndpointRespond

ApiSpec == ApiInit /\ [][ApiNext]_vars

\* ---------------------------------------------------------------- branch
\* no run of process_file, no extraction and no request is under way
EngineIdle ==
    /\ file_ext = ".pdf"
    /\ is_template = FALSE
    /\ max_workers = 1
    /\ pc = "idle"
    /\ report_id = "none"
    /\ db_status = "none"
    /\ processing_steps = <<>>
    /\ attempted = <<>>
    /\ error_cause = "none"
    /\ had_failed_page = FALSE
    /\ qa_status = "none"
    /\ alerts = 0
    /\ active_workflows = 0
    /\ backend_response = NoResponses
    /\ outcome = NoOutcome
    /\ mapping_result = NoMapping
    /\ output_file = "unknown"
    /\ db_calls = NoCalls
    /\ alert_failed = FALSE
    /\ verification = FALSE
    /\ settings = DefaultConfig
    /\ api = NoRequest
    /\ ex_pc = "idle"
    /\ NoPool
    /\ HealIdle

\* two calls of process_file, each about to analyse its file
BranchInit ==
    /\ EngineIdle
    /\ \E c1, c2 \in Calls :
          branch = <<RunOf(c1, "analysis", FALSE, "none"),
                     RunOf(c2, "analysis", FALSE, "none")>>
    /\ shared = NoShared
    /\ handler = NoHandler
    /\ monitor = NoMonitor
    /\ hashing = NoHashing

\* Step 1 of run i: file_info = self._analyze_file(file_path)
AnalyzeFile(i) ==
    /\ branch[i].pc = "analysis"
    /\ branch' = [branch EXCEPT
          ![i] = RunOf(@.call, "template", IsTemplateName(@.call.name), "none")]
    /\ UNCHANGED <<pipeVars, file_ext, is_template, max_workers, healVars,
                   settings, api, shared, handler, monitor, hashing, ex_pc,
                   poolVars>>

\* Step 2 of run i: file_info.get('is_template', False) selects
\* _extract_template_data or _load_template_data
SelectTemplateBranch(i) ==
    /\ branch[i].pc = "template"
    /\ branch' = [branch EXCEPT
          ![i] = RunOf(@.call, "extract", @.is_template,
                       IF @.is_template THEN "extract_template"
                       ELSE "load_template")]
    /\ UNCHANGED <<pipeVars, file_ext, is_template, max_workers, healVars,
                   settings, api, shared, handler, monitor, hashing, ex_pc,
                   poolVars>>

BranchNext ==
    \/ \E i \in 1..2 : AnalyzeFile(i)
    \/ \E i \in 1..2 : SelectTemplateBranch(i)

BranchSpec == BranchInit /\ [][BranchNext]_vars

\* ---------------------------------------------------------------- two extractions
\* Two threads (a request and the file monitor's callback) are each in
\* extract_pdf_template; temp_path = f"temp_page_{i+1}.jpg" does not depend
\* on the document.
SharedInit ==
    /\ EngineIdle
    /\ branch = NoBranch
    /\ \E n1, n2 \in 1..MaxDocPages :
          shared = [NoShared EXCEPT
                      !.runs = <<ExtractionOf(n1), ExtractionOf(n2)>>]
    /\ handler = NoHandler
    /\ monitor = NoMonitor
    /\ hashing = NoHashing

\* image.save(temp_path, 'JPEG') for the next page of run i: the file is
\* created or overwritten
SaveImage(i) ==
    LET run == shared.runs[i]
    IN /\ run.pc = "saving"
       /\ shared' = [shared EXCEPT
             !.fs[run.saved + 1] = i,
             !.runs[i].saved = run.saved + 1,
             !.runs[i].pc = IF run.saved + 1 = run.pages THEN "pool"
                            ELSE "saving"]
       /\ UNCHANGED <<pipeVars, file_ext, is_template, max_workers, healVars,
                      settings, api, branch, handler, monitor, hashing, ex_pc,
                      poolVars>>

\* the task of page p of run i opens its temp_path
ReadImage(i, p) ==
    LET run == shared.runs[i]
    IN /\ run.pc = "pool"
       /\ p <= run.pages
       /\ run.read[p] = Unread
       /\ shared' = [shared EXCEPT !.runs[i].read[p] = shared.fs[p]]
       /\ UNCHANGED <<pipeVars, file_ext, is_template, max_workers, healVars,
                      settings, api, branch, handler, monitor, hashing, ex_pc,
                      poolVars>>

\* the files of the first n pages are gone
RECURSIVE RemoveFiles(_, _)
RemoveFiles(fs, n) ==
    IF n = 0 THEN fs ELSE RemoveFiles([fs EXCEPT ![n] = NoFile], n - 1)

\* run i has collected all its pages: os.remove(temp_path) for each of its
\* temp_paths, errors ignored
RemoveTempFiles(i) ==
    LET run == shared.runs[i]
    IN /\ run.pc = "pool"
       /\ \A p \in 1..run.pages : run.read[p] # Unread
       /\ shared' = [shared EXCEPT
             !.fs = RemoveFiles(shared.fs, run.pages),
             !.runs[i].pc = "returned"]
       /\ UNCHANGED <<pipeVars, file_ext, is_template, max_workers, healVars,
                      settings, api, branch, handler, monitor, hashing, ex_pc,
                      poolVars>>

SharedNext ==
    \/ \E i \in 1..2 : SaveImage(i)
    \/ \E i \in 1..2, p \in 1..MaxDocPages : ReadImage(i, p)
    \/ \E i \in 1..2 : RemoveTempFiles(i)

SharedSpec == SharedInit /\ [][SharedNext]_vars

\* ---------------------------------------------------------------- file events
\* FileMonitorHandler.__init__: nothing processed; a file of some suffix is
\* about to be written into the input directory
HandlerInit ==
    /\ EngineIdle
    /\ branch = NoBranch
    /\ shared = NoShared
    /\ \E suffix \in Suffixes : handler = HandlerOf(suffix)
    /\ monitor = NoMonitor
    /\ hashing = NoHashing

\* the writer creates the file or writes to it and the observer queues a
\* created or modified event; several events can follow one change
EmitEvent ==
    /\ handler.emitted < MaxEvents
    /\ \E changed \in BOOLEAN :
          handler' = [handler EXCEPT
              !.exists = TRUE,
              !.stat = IF changed \/ ~handler.exists THEN @ + 1 ELSE @,
              !.emitted = @ + 1,
              !.queue = @ + 1]
    /\ UNCHANGED <<pipeVars, file_ext, is_template, max_workers, healVars,
                   settings, api, branch, shared, monitor, hashing, ex_pc,
                   poolVars>>

\* the file is removed (deleted events are not handled)
RemoveFile ==
    /\ handler.exists
    /\ handler' = [handler EXCEPT !.exists = FALSE]
    /\ UNCHANGED <<pipeVars, file_ext, is_template, max_workers, healVars,
                   settings, api, branch, shared, monitor, hashing, ex_pc,
                   poolVars>>

\* FileMonitorHandler._get_file_hash
get_file_hash(h) == IF h.exists THEN h.stat ELSE BarePath

\* FileMonitorHandler._process_file: unsupported suffixes and hashes already
\* in processed_files return; otherwise the hash is added first, and then
\* _analyze_file (which raises for a missing file) and the callback run
\* inside a try that prints what they raise
handler_process_file(h, ok) ==
    LET file_hash == get_file_hash(h)
    IN IF Lower(h.suffix) \notin SupportedTypes THEN h
       ELSE IF file_hash \in h.processed_files THEN h
       ELSE IF ~h.exists
            THEN [h EXCEPT !.processed_files = @ \cup {file_hash}]
       ELSE [h EXCEPT
               !.processed_files = @ \cup {file_hash},
               !.called = Append(@, file_hash),
               !.raised = IF ok THEN @ ELSE @ + 1]

\* on_created / on_modified for the oldest waiting event (the observer
\* dispatches events one at a time)
HandleEvent ==
    /\ handler.queue > 0
    /\ \E ok \in BOOLEAN :
          handler' = [handler_process_file(handler, ok) EXCEPT !.queue = @ - 1]
    /\ UNCHANGED <<pipeVars, file_ext, is_template, max_workers, healVars,
                   settings, api, branch, shared, monitor, hashing, ex_pc,
                   poolVars>>

HandlerNext ==
    \/ EmitEvent
    \/ RemoveFile
    \/ HandleEvent

HandlerSpec == HandlerInit /\ [][HandlerNext]_vars

\* ---------------------------------------------------------------- monitor
MonitorInit ==
    /\ EngineIdle
    /\ branch = NoBranch
    /\ shared = NoShared
    /\ handler = NoHandler
    /\ monitor = NoMonitor
    /\ hashing = NoHashing

\* start_monitoring: nothing when monitoring is set; otherwise a new
\* Observer is made and scheduled, and the thread is created and started
\* with monitoring set just before; an exception on the way clears
\* monitoring
StartMonitoring ==
    /\ monitor.calls < MaxMonitorCalls
    /\ IF monitor.monitoring
       THEN monitor' = [monitor EXCEPT !.last = "start", !.calls = @ + 1]
       ELSE \E ok \in BOOLEAN :
            monitor' = [monitor EXCEPT
                !.observers = Append(@, "new"),
                !.observer = Len(monitor.observers) + 1,
                !.threads = IF ok THEN Append(@, "spawned") ELSE @,
                !.monitoring = ok,
                !.last = "start",
                !.calls = @ + 1]
    /\ UNCHANGED <<pipeVars, file_ext, is_template, max_workers, healVars,
                   settings, api, branch, shared, handler, hashing, ex_pc,
                   poolVars>>

\* Observer.stop(): the stop event is set; a thread that was never started
\* stays unstarted
Stopped(state) == IF state \in {"new", "stopped_new"} THEN "stopped_new"
                  ELSE "stopped"

\* stop_monitoring: nothing when monitoring is clear; otherwise
\* observer.stop() and observer.join().  join raises RuntimeError for a
\* thread that has not been started, the except clause prints it, and
\* monitoring = False is not reached.
StopMonitoring ==
    /\ monitor.calls < MaxMonitorCalls
    /\ IF ~monitor.monitoring
       THEN monitor' = [monitor EXCEPT !.last = "stop", !.calls = @ + 1]
       ELSE monitor' = [monitor EXCEPT
                !.observers[monitor.observer] = Stopped(@),
                !.monitoring =
                    monitor.observers[monitor.observer] \in {"new", "stopped_new"},
                !.last = "stop",
                !.calls = @ + 1]
    /\ UNCHANGED <<pipeVars, file_ext, is_template, max_workers, healVars,
                   settings, api, branch, shared, handler, hashing, ex_pc,
                   poolVars>>

\* _run_observer, up to the loop: self.observer.start() on the observer the
\* attribute holds now.  A new observer runs; one stopped before it was
\* started runs and ends at once; one started before raises RuntimeError,
\* which ends the thread.
RunObserver(t) ==
    /\ monitor.threads[t] = "spawned"
    /\ LET state == monitor.observers[monitor.observer]
       IN monitor' = [monitor EXCEPT
             !.observers[monitor.observer] =
                 IF state = "new" THEN "running"
                 ELSE IF state = "stopped_new" THEN "stopped"
                 ELSE state,
             !.threads[t] = IF state \in {"new", "stopped_new"} THEN "loop"
                            ELSE "exited"]
    /\ UNCHANGED <<pipeVars, file_ext, is_template, max_workers, healVars,
                   settings, api, branch, shared, handler, hashing, ex_pc,
                   poolVars>>

\* while self.monitoring: time.sleep(1) -- the thread leaves the loop when it
\* finds monitoring clear
LeaveLoop(t) ==
    /\ monitor.threads[t] = "loop"
    /\ ~monitor.monitoring
    /\ monitor' = [monitor EXCEPT !.threads[t] = "exited"]
    /\ UNCHANGED <<pipeVars, file_ext, is_template, max_workers, healVars,
                   settings, api, branch, shared, handler, hashing, ex_pc,
                   poolVars>>

MonitorNext ==
    \/ StartMonitoring
    \/ StopMonitoring
    \/ \E t \in 1..MaxMonitorCalls : t <= Len(monitor.threads) /\ RunObserver(t)
    \/ \E t \in 1..MaxMonitorCalls : t <= Len(monitor.threads) /\ LeaveLoop(t)

MonitorSpec == MonitorInit /\ [][MonitorNext]_vars

\* ---------------------------------------------------------------- input_hash
AccountNames == {"Revenue", "Cost", "Tax"}
ColumnNames == {"Sales"}

SeqsUpTo(S, n) == UNION {[1..k -> S] : k \in 0..n}

\* list(set(accounts)): the distinct names, in the iteration order of a set
\* of strings, which follows the per-process string hash seed -- any order
\* of the distinct names can come out
extract_template_accounts(headers) ==
    LET names == Range(headers)
    IN {order \in [1..Cardinality(names) -> names] : Range(order) = names}

\* hashlib.sha256(json.dumps(template_accounts + data_accounts)): json.dumps
\* of a list of strings is one-to-one and the digest is taken as
\* collision-free, so the hash stands for the concatenated list
input_hash(template_accounts, data_accounts) ==
    template_accounts \o data_accounts

HashInit ==
    /\ EngineIdle
    /\ branch = NoBranch
    /\ shared = NoShared
    /\ handler = NoHandler
    /\ monitor = NoMonitor
    /\ hashing \in {[headers |-> h, columns |-> c, runs |-> <<>>] :
                        h \in SeqsUpTo(AccountNames, MaxHeaders),
                        c \in SeqsUpTo(ColumnNames, MaxColumns)}

\* _perform_account_mapping: template accounts, data columns, and the
\* input_hash of the stage record
PerformAccountMapping ==
    /\ Len(hashing.runs) < MaxRuns
    /\ \E template_accounts \in extract_template_accounts(hashing.headers) :
          hashing' = [hashing EXCEPT !.runs =
              Append(@, input_hash(template_accounts, hashing.columns))]
    /\ UNCHANGED <<pipeVars, file_ext, is_template, max_workers, healVars,
                   settings, api, branch, shared, handler, monitor, ex_pc,
                   poolVars>>

HashNext == PerformAccountMapping

HashSpec == HashInit /\ [][HashNext]_vars

\* ---------------------------------------------------------------- Config
\* Config(...) with any field values: the dataclass stores them and calls
\* __post_init__
ConfigInit ==
    /\ file_ext = ".pdf"
    /\ is_template = FALSE
    /\ max_workers = 1
    /\ pc = "idle"
    /\ report_id = "none"
    /\ db_status = "none"
    /\ processing_steps = <<>>
    /\ attempted = <<>>
    /\ error_cause = "none"
    /\ had_failed_page = FALSE
    /\ qa_status = "none"
    /\ alerts = 0
    /\ active_workflows = 0
    /\ backend_response = NoResponses
    /\ outcome = NoOutcome
    /\ mapping_result = NoMapping
    /\ output_file = "unknown"
    /\ db_calls = NoCalls
    /\ alert_failed = FALSE
    /\ verification = FALSE
    /\ \E present \in SUBSET Range(RequiredKeys), auto \in Thresholds,
          review \in Thresholds, on_init \in BOOLEAN :
            settings = ConfigOf(present, auto, review, on_init)
    /\ api = NoRequest
    /\ AuxIdle
    /\ ex_pc = "idle"
    /\ NoPool
    /\ HealIdle

\* __post_init__: it returns at once when validate_on_init is false, and
\* otherwise prints a warning naming the empty settings; it raises nothing
\* and does not look at the thresholds
PostInit ==
    /\ settings.pc = "fields"
    /\ settings' = [settings EXCEPT
          !.pc = "loaded",
          !.warning = IF settings.validate_on_init
                      THEN MissingVars(settings.present, 1) ELSE <<>>]
    /\ UNCHANGED <<pipeVars, file_ext, is_template, max_workers, healVars,
                   api, ex_pc, poolVars>>
    /\ UNCHANGED auxVars

\* validate(): ValueError for the first empty required setting
Validate ==
    /\ settings.pc = "loaded"
    /\ LET missing == MissingVars(settings.present, 1)
       IN settings' = IF missing = <<>>
                      THEN [settings EXCEPT !.pc = "validated"]
                      ELSE [settings EXCEPT !.pc = "value_error",
                                            !.error = missing[1]]
    /\ UNCHANGED <<pipeVars, file_ext, is_template, max_workers, healVars,
                   api, ex_pc, poolVars>>
    /\ UNCHANGED auxVars

ConfigNext ==
    \/ PostInit
    \/ Validate

ConfigSpec == ConfigInit /\ [][ConfigNext]_vars

\* ---------------------------------------------------------------- properties
Finished(p) == p <= total_pages /\ task[p] \in {"done", "collected"}

\* C1: when extract_pdf_template returns for a document of N pages (N >= 0),
\* whatever each page's outcome was, it returns exactly N page results, and
\* the i-th of them is the result for page i: indices 1..N in increasing
\* order, none twice, none missing.
C1_ExactlyOneResultPerPage ==
    ex_pc = "returned" =>
        /\ Len(pages) = total_pages
        /\ \A i \in 1..Len(pages) : pages[i].page = i

\* every page failed both attempts, and they were collected out of order
C1_Witness ==
    /\ ex_pc = "returned"
    /\ total_pages >= 2
    /\ \A i \in 1..total_pages : pages[i].extraction_method = "failed"
    /\ results[1].page # 1

\* C2: the merged sequence extract_pdf_template returns is determined by the
\* per-page outcomes alone: it is the sequence of the tasks' own return
\* values in page order, whatever order the tasks completed in and whatever
\* the worker limit is.
C2_MergeIndependentOfCompletionOrder ==
    ex_pc = "returned" => pages = value

\* more than one worker, and the completion order was not the page order
C2_Witness ==
    /\ ex_pc = "returned"
    /\ total_pages = MaxPages
    /\ max_workers > 1
    /\ results # pages
    /\ \E i, j \in 1..total_pages : pages[i].extraction_method # pages[j].extraction_method

RecordName(stage) ==
    CASE stage = "file_analysis" -> "File Analysis"
      [] stage = "template" -> "Template Extraction"
      [] stage = "extract_heal" -> "Data Extraction & Healing"
      [] stage = "mapping" -> "Semantic Account Mapping"
      [] stage = "generation" -> "Statement Generation"
      [] stage = "audit" -> "Quality Assurance Audit"
      [] OTHER -> "Verification Certificate"

RecordsNamed(name) == {j \in 1..Len(processing_steps) : processing_steps[j].name = name}

\* C4: when a stage fails, the ledger returned with the failure has a record
\* for every stage up to and including the failing one.
C4_LedgerCoversFailingStage ==
    (pc = "error" /\ error_cause \notin {"create_report", "metrics"}) =>
        \A i \in 1..Len(attempted) : RecordsNamed(RecordName(attempted[i])) # {}

\* C5: process_file always returns an outcome and never lets an exception
\* escape to its caller.
C5_NoExceptionEscapes == pc # "escaped"

InOrder(stages) == stages = SubSeq(StageOrder, 1, Len(stages))

\* C6: stages are entered in the order of StageOrder, each at most once; no
\* stage is entered while extract_pdf_template is still running; and once a
\* stage has raised, no further stage is entered and no further record is
\* appended.
C6_StagesSequentialAndStopOnError ==
    /\ [](/\ Len(attempted) <= Len(StageOrder)
          /\ InOrder(attempted)
          /\ (ex_pc # "idle" => pc \in {"template_wait", "extract_wait"}))
    /\ [][/\ (error_cause # "none" =>
                 attempted' = attempted /\ processing_steps' = processing_steps)
          /\ (ex_pc # "idle" => attempted' = attempted)]_vars

\* a run that failed in the mapping stage after a parallel extraction
C6_Witness ==
    /\ pc = "error"
    /\ error_cause = "mapping_backend_error"
    /\ attempted = SubSeq(StageOrder, 1, 4)
    /\ file_ext = ".pdf"

PrimaryFailed(r) == r \in {"nonconforming", "unparseable", "backend_error"}

\* C8: for each finished page the fallback path was invoked exactly once if
\* the primary attempt ended in malformed-response or backend-error and not
\* at all if it succeeded; the method tag is primary after primary success,
\* fallback or failed otherwise.
C8_FallbackIffPrimaryFailed ==
    \A p \in 1..MaxPages : Finished(p) =>
        /\ fb_calls[p] = (IF PrimaryFailed(response[p]) THEN 1 ELSE 0)
        /\ (value[p].extraction_method = "gemini_vision") = (response[p] = "ok")

AllPagesExecuted ==
    /\ ex_pc # "convert"
    /\ \A p \in 1..total_pages : task[p] \in {"done", "collected"}

C11_ShapeValidatedBeforeUse ==
    /\ \A p \in 1..MaxPages :
          (Finished(p) /\ response[p] = "nonconforming") =>
              /\ fb_calls[p] = 1
              /\ value[p].extraction_method \in {"ocr_fallback", "failed"}
    /\ error_cause # "malformed_tables"

\* the kind of error a returned dict carries; the dicts process_file builds
\* have no key for it
ErrorKindOf(o) == IF "error_kind" \in DOMAIN o THEN o.error_kind ELSE "none"

\* the reply parsed or not, but is not of the requested shape
MalformedReply(r) == r \in {"nonconforming", "unparseable"}

C13_FailedOutcomeCarriesStageMessageLedger ==
    (pc = "error" /\ error_cause \notin {"create_report", "metrics"}) =>
        /\ outcome.status = "error"
        /\ outcome.error.helper # "none"
        /\ outcome.error.helper = HelperMessage(attempted[Len(attempted)])
        /\ outcome.error.detail = error_cause
        /\ outcome.processing_steps = processing_steps

\* the backend raised, or its reply is not of the requested shape
BadReply(r) == r = "backend_error" \/ MalformedReply(r)

HealCalled == heal_pc \in {"once", "twice"}

\* the steps of the first call that ran to their end: step i applied
\* issues[i] to trace[i] and left trace[i + 1]
HealSteps == 1..(Len(trace) - 1)

\* C15: heal is idempotent: for every record set and every issue list,
\* outlier issues included, applying _apply_data_healing to its own result
\* with the same issue list gives the records the first application gave.
C15_HealIdempotent ==
    again.called =>
        /\ ~again.raised
        /\ again.records = Records(trace[Len(trace)])

\* C15 (amended): for every record set and every issue list without outlier
\* issues, applying _apply_data_healing to its own result with the same
\* issue list gives the records the first application gave; an outlier
\* issue applied again can lower its cell again, p95 being recomputed.
C15_IdempotentWithoutOutliers ==
    (again.called /\ \A i \in 1..Len(issues) : issues[i].type # "outlier") =>
        /\ ~again.raised
        /\ again.records = Records(trace[Len(trace)])

\* a second application of a list that wrote a value, added a row and
\* converted the field
C15_Witness ==
    /\ again.called
    /\ Len(issues) = MaxIssues
    /\ \A i \in 1..Len(issues) : issues[i].type # "outlier"
    /\ \E i \in 1..Len(issues) : issues[i].type = "type_error"
    /\ Len(trace[Len(trace)].index) > Len(df_before.index)
    /\ trace[Len(trace)].dtype # df_before.dtype

\* the issue names a field the records do not have, or a row they do not have
OutOfRange(issue, f) == issue.column \notin f.columns \/ Pos(f, issue.row) = 0

RemoveAt(q, i) == SubSeq(q, 1, i - 1) \o SubSeq(q, i + 1, Len(q))

\* C16: an issue that references an out-of-range row or an unknown field is
\* skipped without error, whatever its kind: healing does not raise because
\* of it and returns the records it returns for the list without that issue.
C16_OutOfRangeIssueSkipped ==
    HealCalled =>
        \A i \in 1..Len(issues) :
            OutOfRange(issues[i], df_before) =>
                LET without == HealLoop(<<df_before>>, RemoveAt(issues, i))
                IN /\ raised = without.raised
                   /\ Records(trace[Len(trace)]) =
                          Records(without.trace[Len(without.trace)])

\* C17: healing never mutates the original: after _apply_data_healing
\* returned (or raised) the caller's frame is as it was before the call, and
\* the returned frame is another object; the same holds for the frame given
\* to a second call.
C17_OriginalNotMutated ==
    HealCalled =>
        /\ frames[1] = df_before
        /\ (~raised => healed_df # 1)
        /\ (again.called => frames[healed_df] = trace[Len(trace)])

\* healing changed a cell, and the caller's frame still has the old one
C17_Witness ==
    /\ heal_pc = "once"
    /\ ~raised
    /\ Len(issues) = MaxIssues
    /\ frames[healed_df].data # df_before.data
    /\ frames[healed_df].index = df_before.index

\* C18: a missing issue on a row and field the records have writes the
\* suggested value, when there is one, into exactly the target cell, and
\* otherwise leaves the cell as it is; no other cell and no row changes.
C18_MissingWritesTargetCell ==
    \A i \in HealSteps :
        (/\ issues[i].type = "missing"
         /\ ~OutOfRange(issues[i], df_before)) =>
            /\ trace[i + 1].index = trace[i].index
            /\ \A j \in 1..Len(trace[i].index) :
                  trace[i + 1].data[issues[i].column][j] =
                      IF /\ j = Pos(trace[i], issues[i].row)
                         /\ issues[i].suggested_value # Null
                      THEN issues[i].suggested_value
                      ELSE trace[i].data[issues[i].column][j]

\* Scenario B: [{amt: null}, {amt: 20}] with the issue {row 0, amt,
\* missing, suggested 10} gives [{amt: 10}, {amt: 20}]
C18_Witness ==
    /\ heal_pc = "once"
    /\ df_before.data.amt = <<Null, Num(20 * Unit)>>
    /\ issues = <<Issue(0, "amt", "missing", Num(10 * Unit))>>
    /\ ~raised
    /\ frames[healed_df].data.amt = <<Num(10 * Unit), Num(20 * Unit)>>

\* C19: an outlier issue on a cell of a numeric field replaces the cell with
\* min(original, p95), p95 being the 95th percentile of the field over the
\* frame as it is when the issue is processed (already partly healed); on a
\* field that is not numeric it changes nothing.
C19_OutlierCappedAtCurrentP95 ==
    \A i \in HealSteps :
        (/\ issues[i].type = "outlier"
         /\ ~OutOfRange(issues[i], trace[i])) =>
            LET col == issues[i].column
                k   == Pos(trace[i], issues[i].row)
                old == trace[i].data[col][k]
                p95 == Quantile95(trace[i].data[col])
            IN IF trace[i].dtype[col] = "number"
               THEN /\ trace[i + 1].index = trace[i].index
                    /\ \A j \in 1..Len(trace[i].index) :
                          trace[i + 1].data[col][j] =
                              IF j # k THEN trace[i].data[col][j]
                              ELSE IF old.t = "num" /\ p95.n < old.n THEN p95
                              ELSE old
               ELSE trace[i + 1] = trace[i]

\* an outlier issue lowered a cell of a frame an earlier issue had changed
C19_Witness ==
    /\ heal_pc = "once"
    /\ \E i \in HealSteps :
          /\ i > 1
          /\ issues[i].type = "outlier"
          /\ trace[i] # trace[1]
          /\ trace[i + 1].data # trace[i].data
          /\ Quantile95(trace[i].data.amt) # Quantile95(trace[1].data.amt)

\* C20: a type-error issue on a known field raises nothing and leaves every
\* cell of the field with its numeric value when it has one (a number, or a
\* string that reads as one) and null when it has none.
C20_TypeErrorCoercesOrNulls ==
    /\ (raised => issues[Len(trace)].type # "type_error")
    /\ \A i \in HealSteps :
          (/\ issues[i].type = "type_error"
           /\ issues[i].column \in trace[i].columns) =>
              /\ trace[i + 1].index = trace[i].index
              /\ \A j \in 1..Len(trace[i].index) :
                    LET old == trace[i].data[issues[i].column][j]
                    IN trace[i + 1].data[issues[i].column][j] =
                          IF old.t = "num" THEN old
                          ELSE IF old = Str("7") THEN Num(7 * Unit)
                          ELSE Null

\* one cell read as a number and another could not be
C20_Witness ==
    /\ heal_pc = "once"
    /\ ~raised
    /\ \E i \in HealSteps :
          /\ issues[i].type = "type_error"
          /\ \E j, k \in 1..Len(trace[i].index) :
                /\ trace[i].data.amt[j] = Str("7")
                /\ trace[i + 1].data.amt[j] = Num(7 * Unit)
                /\ trace[i].data.amt[k] = Str("x")
                /\ trace[i + 1].data.amt[k] = Null

\* the action the thresholds give a score
Classify(score) ==
    IF score > auto_map_threshold THEN "AUTO_MAP"
    ELSE IF score >= review_threshold THEN "REVIEW_NEEDED"
    ELSE "NEW_FIELD"

C26_StorageCalls ==
    /\ db_calls.create_report = IF pc = "start" THEN 0 ELSE 1
    /\ db_calls.update_report_completion =
          IF pc \in {"alert", "metrics", "success"}
             \/ (pc \in {"handler", "error", "escaped"} /\ error_cause = "metrics")
          THEN 1 ELSE 0
    /\ db_calls.update_report_completion = 1 =>
          /\ attempted = StageOrder
          /\ error_cause \in {"none", "metrics"}
    /\ db_calls.update_report_status =
          IF pc \in {"error", "escaped"} THEN 1 ELSE 0

\* C26 as the code has it: the same, except that a run whose create_report
\* call failed has no report to update and makes no update_report_status call.
C26_StorageCallsWhenReportExists ==
    /\ db_calls.create_report = IF pc = "start" THEN 0 ELSE 1
    /\ db_calls.update_report_completion =
          IF pc \in {"alert", "metrics", "success"}
             \/ (pc \in {"handler", "error", "escaped"} /\ error_cause = "metrics")
          THEN 1 ELSE 0
    /\ db_calls.update_report_completion = 1 =>
          /\ attempted = StageOrder
          /\ error_cause \in {"none", "metrics"}
    /\ db_calls.update_report_status =
          IF pc \in {"error", "escaped"} /\ error_cause # "create_report"
          THEN 1 ELSE 0

\* a run failed because create_report did, and made no other storage call
C26_Witness ==
    /\ pc = "error"
    /\ error_cause = "create_report"
    /\ outcome.status = "error"
    /\ db_calls = [NoCalls EXCEPT !.create_report = 1]

C28_AlertOnTerminalFailure ==
    pc = "error" => alerts = 1

\* C29: an exception inside send_alert never reaches process_file: the run
\* goes on to the metrics call, and when it returns success it returns the
\* ledger it had.
C29_AlertFailureIsSwallowed ==
    alert_failed =>
        /\ error_cause \in {"none", "metrics"}
        /\ pc \in {"metrics", "success", "handler", "error", "escaped"}
        /\ pc = "success" =>
              outcome = SuccessOutcome(report_id, qa_status, processing_steps)

\* a run whose alert failed returned success with all six records
C29_Witness ==
    /\ alert_failed
    /\ alerts = 1
    /\ pc = "success"
    /\ outcome.status = "success"
    /\ Len(outcome.processing_steps) >= 5

\* C30: while extract_pdf_template is still working, the temporary image of
\* every page whose extraction has completed is already removed.
C30_TempImageReleasedPerPage ==
    \A p \in 1..MaxPages :
        (ex_pc \in {"convert", "pool"} /\ Finished(p)) => p \notin temp_paths

\* the required settings of the instance that are empty
EmptyRequired == Range(RequiredKeys) \ settings.present

\* C22: every Config that loaded has 0 <= review_threshold <
\* auto_map_threshold <= 1.
C22_ThresholdsOrderedAfterLoad ==
    settings.pc \in {"loaded", "validated"} =>
        /\ 0 <= settings.review_threshold
        /\ settings.review_threshold < settings.auto_map_threshold
        /\ settings.auto_map_threshold <= 100

\* C23: a Config with an empty required setting does not load: constructing
\* it fails, and validate() on it raises.
C23_MissingKeyIsFatal ==
    /\ settings.pc \in {"loaded", "validated"} => EmptyRequired = {}
    /\ settings.pc = "value_error" => settings.error \in EmptyRequired

\* a request the input policy excludes: no file_path or one that names no
\* file, a type that is not supported, a file over 50MB, a user_id that is
\* empty or longer than 255 characters, a year outside 2000..2100
OutOfPolicy(r) ==
    \/ r.path \in {"missing", "nonexistent"}
    \/ Lower(r.suffix) \notin {".pdf", ".xlsx", ".xls"}
    \/ r.size > 50 * 1024 * 1024
    \/ r.user_id = 0
    \/ r.user_id > 255
    \/ (r.year # Missing /\ (r.year < 2000 \/ r.year > 2100))

C32_TimedOutPageFallsBackAndExtractionReturns ==
    /\ [](\A p \in 1..MaxPages :
            (p <= total_pages /\ response[p] = "no_response") =>
                (fb_calls[p] = 1 /\ task[p] \in {"fallback", "done", "collected"}))
    /\ <>(ex_pc \in {"returned", "raised"})

\* C34: when process_file returned success the stored report is 'ready' (audit
\* PASS) or 'review_needed' (otherwise) and has a verifications row; when it
\* returned error after the report was created the stored status is 'error'.
C34_StoredStatusAgreesWithOutcome ==
    /\ pc = "success" =>
          /\ db_status = IF qa_status = "PASS" THEN "ready" ELSE "review_needed"
          /\ verification
    /\ (pc = "error" /\ report_id # "none") => db_status = "error"

\* process_file has returned or let an exception out
RunEnded == pc \in {"success", "error", "escaped"}

\* C35: the active_workflows gauge is never negative and is back at zero
\* when the only run has ended.
C35_GaugeCountsRunsInFlight ==
    /\ active_workflows >= 0
    /\ RunEnded => active_workflows = 0

\* C38: a run on a .pdf, .xlsx or .xls file never fails with the
\* unsupported-file-type error of the extraction stage.
C38_AcceptedTypeIsExtracted ==
    file_ext \in {".pdf", ".xlsx", ".xls"} =>
        error_cause # "unsupported_file_type"

\* C39: the report of a run that returned success is counted in
\* completed_count, the report of a run that returned error in failed_count,
\* and the two counts together do not exceed total_count.
C39_CountsAgreeWithWrittenStatuses ==
    LET counts == get_user_reports(StoredReports)
    IN /\ pc = "success" => counts.completed_count = 1
       /\ (pc = "error" /\ report_id # "none") => counts.failed_count = 1
       /\ counts.completed_count + counts.failed_count <= counts.total_count

\* C31: two runs that were given the same arguments apart from the file
\* take the same template branch, whatever their files are called and hold.
C31_BranchSelectedByCallerOnly ==
    \A i, j \in 1..Len(branch) :
        (/\ branch[i].taken # "none"
         /\ branch[j].taken # "none"
         /\ branch[i].call.user_id = branch[j].call.user_id
         /\ branch[i].call.year = branch[j].call.year) =>
            branch[i].taken = branch[j].taken

\* C33: of two extractions running at the same time, every page task read
\* the image its own run saved, and the image of a page a run has not read
\* yet is there and is its own (no other run removed or replaced it).
C33_ConcurrentExtractionsDoNotInterfere ==
    \A i \in 1..Len(shared.runs) :
        \A p \in 1..shared.runs[i].pages :
            /\ shared.runs[i].read[p] \in {Unread, i}
            /\ (shared.runs[i].pc = "pool" /\ shared.runs[i].read[p] = Unread) =>
                  shared.fs[p] = i

\* C36: whatever created and modified events one file gets, the callback is
\* called at most once for it, and never twice with the same signature.
C36_CallbackAtMostOncePerFile ==
    /\ Len(handler.called) <= 1
    /\ \A i, j \in 1..Len(handler.called) :
          handler.called[i] = handler.called[j] => i = j

\* the observers whose thread is running
RunningObservers ==
    {o \in 1..Len(monitor.observers) : monitor.observers[o] = "running"}

\* C37: once stop_monitoring has returned, and until the next call,
\* monitoring is false and no observer is running; and at no time is more
\* than one observer running.
C37_StopStopsAndOneObserver ==
    /\ monitor.last = "stop" =>
          (~monitor.monitoring /\ RunningObservers = {})
    /\ Cardinality(RunningObservers) <= 1

\* C40: all runs of the mapping stage on the same template data and healed
\* data record the same input_hash.
C40_InputHashDeterministic ==
    \A i, j \in 1..Len(hashing.runs) : hashing.runs[i] = hashing.runs[j]

====
